---- MODULE Spec2Model ----
(***************************************************************************)
(* SimpleProjectileMotion: the frame loop of Renderer.py (launch state     *)
(* from config.py, one physics update per frame), the PhysicsLogger of     *)
(* logger.py and the analysis entry point of graph.py.                     *)
(*                                                                         *)
(* Python floats are modelled as exact fixed-point numbers:                *)
(*   time      in centiseconds            (TimeScale units per second)     *)
(*   velocity  in 10^-4 m/s               (VelScale units per m/s)         *)
(*   pixels    in 10^-6 pixel             (PosScale units per pixel)       *)
(* so that vy + Gravity*dt and pos + v*dt*PIXELS_PER_METER are exact on    *)
(* the grid.  Logged samples are in thousandths (MilliScale).              *)
(***************************************************************************)
EXTENDS Integers, Sequences, FiniteSets, TLC

VARIABLES
    \* config.py module attributes (read-only after import)
    InitialHeight, Theta, Velocity,
    \* Renderer.py module globals
    x, y, vx, vy, ball_bottom_x, ball_bottom_y,
    running, delta_time, ball_center,
    \* history: which way the last frame took at line 65 ("update" or "skip"),
    \* and whether some physics update has moved the ball down
    branch, descended,
    \* logger.py: the PhysicsLogger object, and the files on disk
    filename, data, headers, fs,
    \* what the last logger / analysis call printed or returned
    output,
    \* history: the log_data arguments since construction or clear_data, and
    \* how many entries the last clear_data threw away
    calls, dropped

simVars == <<InitialHeight, Theta, Velocity, x, y, vx, vy, ball_bottom_x,
             ball_bottom_y, running, delta_time, ball_center, branch,
             descended>>
logVars == <<filename, data, headers, fs, output, calls, dropped>>
vars == <<simVars, logVars>>

---------------------------------------------------------------------------
(* Units *)
TimeScale == 10 * 10
VelScale == 100 * TimeScale
PosScale == TimeScale * VelScale
MilliScale == 10 * TimeScale

(* Bounds of the explored inputs *)
MaxHeight == 2
MaxVelocity == 9
MaxRows == 3

---------------------------------------------------------------------------
(* config.py *)
DefaultInitialHeight == 0
DefaultTheta == 45
DefaultVelocity == 9
\* Gravity = -9.81 m/s^2, in 10^-2 m/s^2: Gravity * dt[cs] is a velocity
\* in 10^-4 m/s
Gravity == -981

Heights == 0..MaxHeight
Thetas == {0, DefaultTheta, 60, -45}
Velocities == {0, 3, DefaultVelocity, MaxVelocity}

\* math.cos(math.radians(t)) and math.sin(math.radians(t)), to four decimals
CosE4(t) ==
    CASE t = 0 -> 10000
      [] t = 45 -> 7071
      [] t = -45 -> 7071
      [] t = 60 -> 5000
      [] OTHER -> 10000
SinE4(t) ==
    CASE t = 0 -> 0
      [] t = 45 -> 7071
      [] t = -45 -> -7071
      [] t = 60 -> 8660
      [] OTHER -> 0

initialVelocityX(t, v) == (CosE4(t) * v * VelScale) \div 10000
initialVelocityY(t, v) == (SinE4(t) * v * VelScale) \div 10000

---------------------------------------------------------------------------
(* Renderer.py *)
HEIGHT == 600
GROUND_Y == (HEIGHT - 100) * PosScale
BALL_RADIUS == 30
PIXELS_PER_METER == HEIGHT \div 10

\* clock.tick(60) / 1000.0: the frame times explored, in centiseconds
DeltaTimes == {2, 10}

\* int(): truncation toward zero of a value in 10^-6 pixel
IntPx(p) == IF p >= 0 THEN p \div PosScale ELSE -((-p) \div PosScale)

\* draw(): the ball centre handed to pygame.draw.circle
BallCenter(bx, by) == <<IntPx(bx), IntPx(by - BALL_RADIUS * PosScale)>>

\* line 65: if ball_bottom_y < GROUND_Y or (vx != 0 or vy != 0)
\* (the first two are faulty variants: <= for <, and "and" for "or")
UpdateGuard_PositionOrEqual(by, vxx, vyy) == by <= GROUND_Y \/ (vxx # 0 \/ vyy # 0)
UpdateGuard_And(by, vxx, vyy) == by < GROUND_Y /\ (vxx # 0 \/ vyy # 0)
UpdateGuard(by, vxx, vyy) == by < GROUND_Y \/ (vxx # 0 \/ vyy # 0)

\* line 67: vy += config.Gravity * delta_time
StepVy(vyy, dt) == vyy + Gravity * dt

\* line 70: ball_bottom_x += vx * delta_time * PIXELS_PER_METER
StepX(bx, vxx, dt) == bx + vxx * dt * PIXELS_PER_METER

\* line 71: ball_bottom_y -= vy * delta_time * PIXELS_PER_METER, after line 67
\* (faulty variant: the position moved by the velocity of before line 67)
StepY_OldVelocity(by, vyy, dt) == by - vyy * dt * PIXELS_PER_METER
StepY(by, vyy, dt) == by - StepVy(vyy, dt) * dt * PIXELS_PER_METER

\* line 74: if ball_bottom_y >= GROUND_Y
HitsGround(by) == by >= GROUND_Y

\* lines 75-78: the ball is put on the ground and stopped
\* (faulty variants: vx is not reset; vy is reflected instead of reset)
Landed_KeepsVx(s) == [s EXCEPT !.by = GROUND_Y, !.vy = 0]
Landed_Bounces(s) == [s EXCEPT !.by = GROUND_Y, !.vy = -s.vy]
Landed(s) == [s EXCEPT !.by = GROUND_Y, !.vx = 0, !.vy = 0]

\* lines 65-78: the physics update of one frame
PhysicsUpdate(s, dt) ==
    IF UpdateGuard(s.by, s.vx, s.vy)
    THEN LET moved == [bx |-> StepX(s.bx, s.vx, dt),
                       by |-> StepY(s.by, s.vy, dt),
                       vx |-> s.vx,
                       vy |-> StepVy(s.vy, dt)]
         IN IF HitsGround(moved.by) THEN Landed(moved) ELSE moved
    ELSE s

Physics == [bx |-> ball_bottom_x, by |-> ball_bottom_y, vx |-> vx, vy |-> vy]

\* lines 30-37 and 51: the globals before the loop starts
SimInit ==
    /\ InitialHeight \in Heights
    /\ Theta \in Thetas
    /\ Velocity \in Velocities
    /\ x = 0
    /\ y = InitialHeight
    /\ vx = initialVelocityX(Theta, Velocity)
    /\ vy = initialVelocityY(Theta, Velocity)
    /\ ball_bottom_x = x * PIXELS_PER_METER * PosScale
    /\ ball_bottom_y = GROUND_Y - (y * PIXELS_PER_METER * PosScale)
    /\ running = TRUE
    /\ delta_time = 0
    /\ ball_center = <<0, 0>>
    /\ branch = "start"
    /\ descended = FALSE

\* lines 55-84: one iteration of the game loop.  quit: a QUIT event was in
\* the queue; dt: what clock.tick returned.
Frame(quit, dt) ==
    /\ running
    /\ running' = ~quit
    /\ delta_time' = dt
    /\ LET n == PhysicsUpdate(Physics, dt)
       IN /\ ball_bottom_x' = n.bx
          /\ ball_bottom_y' = n.by
          /\ vx' = n.vx
          /\ vy' = n.vy
          /\ ball_center' = BallCenter(n.bx, n.by)
          /\ descended' = (descended \/ n.by > ball_bottom_y)
    /\ branch' = IF UpdateGuard(ball_bottom_y, vx, vy) THEN "update" ELSE "skip"
    /\ UNCHANGED <<InitialHeight, Theta, Velocity, x, y>>
    /\ UNCHANGED logVars

GameLoop == \E quit \in BOOLEAN, dt \in DeltaTimes : Frame(quit, dt)

---------------------------------------------------------------------------
(* Text: what csv.writer writes and pandas.read_csv parses *)
Digits == <<"0", "1", "2", "3", "4", "5", "6", "7", "8", "9">>

RECURSIVE NatText(_)
\* str() of a non-negative integer
NatText(n) ==
    IF n < 10 THEN Digits[n + 1]
    ELSE NatText(n \div 10) \o Digits[(n % 10) + 1]

\* the three decimals of m thousandths, zero padded
Frac3(m) ==
    Digits[(m \div 100) + 1] \o Digits[((m \div 10) % 10) + 1] \o Digits[(m % 10) + 1]

\* the decimals of repr(float): trailing zeros dropped, one digit kept
FracText(m) ==
    IF m % 1000 = 0 THEN "0"
    ELSE IF m % 100 = 0 THEN SubSeq(Frac3(m), 1, 1)
    ELSE IF m % 10 = 0 THEN SubSeq(Frac3(m), 1, 2)
    ELSE Frac3(m)

Abs(n) == IF n < 0 THEN -n ELSE n

\* str(float) of n thousandths, as csv.writer writes a float field
FloatText(n) ==
    (IF n < 0 THEN "-" ELSE "") \o NatText(Abs(n) \div MilliScale)
        \o "." \o FracText(Abs(n) % MilliScale)

\* f"{value:.3f}" of n thousandths
Fixed3(n) ==
    (IF n < 0 THEN "-" ELSE "") \o NatText(Abs(n) \div MilliScale)
        \o "." \o Frac3(Abs(n) % MilliScale)

RECURSIVE Join(_)
\* csv.writer.writerow: the fields separated by commas
Join(fields) ==
    IF Len(fields) = 0 THEN ""
    ELSE IF Len(fields) = 1 THEN fields[1]
    ELSE fields[1] \o "," \o Join(Tail(fields))

WriteRow(fields) == Join(fields)

\* the position of the first character c of text s, 0 when there is none
IndexOf(s, c) ==
    LET hits == {i \in 1..Len(s) : SubSeq(s, i, i) = c}
    IN IF hits = {} THEN 0 ELSE CHOOSE i \in hits : \A j \in hits : i <= j

RECURSIVE Split(_)
\* a line of the file cut at its commas
Split(line) ==
    LET k == IndexOf(line, ",")
    IN IF k = 0 THEN <<line>>
       ELSE <<SubSeq(line, 1, k - 1)>> \o Split(SubSeq(line, k + 1, Len(line)))

DigitVal(c) == CHOOSE d \in 0..9 : Digits[d + 1] = c

RECURSIVE NatVal(_)
\* the value of a run of digits
NatVal(s) ==
    IF Len(s) = 0 THEN 0
    ELSE 10 * NatVal(SubSeq(s, 1, Len(s) - 1)) + DigitVal(SubSeq(s, Len(s), Len(s)))

\* decimals, read as thousandths
FracVal(s) ==
    NatVal(SubSeq(s \o "000", 1, 3))

\* the number a numeric field parses to, in thousandths
ParseFloat(s) ==
    LET neg == Len(s) > 0 /\ SubSeq(s, 1, 1) = "-"
        body == IF neg THEN SubSeq(s, 2, Len(s)) ELSE s
        dot == IndexOf(body, ".")
        whole == IF dot = 0 THEN body ELSE SubSeq(body, 1, dot - 1)
        frac == IF dot = 0 THEN "" ELSE SubSeq(body, dot + 1, Len(body))
        mag == NatVal(whole) * MilliScale + FracVal(frac)
    IN IF neg THEN -mag ELSE mag

---------------------------------------------------------------------------
(* logger.py *)
HEADERS == <<"Time", "X_Position", "Y_Position", "Velocity_X", "Velocity_Y">>

GeneratedName == "projectile_data_20240101_120000.csv"
FileNames == {GeneratedName, "run.csv", "missing.csv", "empty.csv"}

NoFile == [exists |-> FALSE, lines |-> <<>>]
FileOf(lines) == [exists |-> TRUE, lines |-> lines]

\* the samples a caller logs: <<time, x, y, vx, vy>> in thousandths
SampleTimes == {0, 500, 1250}
Sample(t) ==
    <<t, (6364 * t) \div 1000, (2 * t) \div 5, 6364, 6364 - (981 * t) \div 100>>
Samples == {Sample(t) : t \in SampleTimes}

Out(op, arg, result, count, span) ==
    [op |-> op, arg |-> arg, result |-> result, count |-> count, span |-> span]

\* open(self.filename, 'w') ... writer.writerow(row): the file holds that row only
\* (faulty variant: the file is opened in 'a' mode)
Truncated_AppendMode(lines, row) == Append(lines, WriteRow(row))
Truncated(lines, row) == <<WriteRow(row)>>

\* open(self.filename, 'a') ... writer.writerow(row)
Appended(lines, row) == Append(lines, WriteRow(row))

\* line 40: self.data.append(data_point)
\* (faulty variant: a point with the time of the last entry is not stored)
DataAppend_SkipsEqualTime(d, point) ==
    IF Len(d) > 0 /\ d[Len(d)][1] = point[1] THEN d ELSE Append(d, point)
DataAppend(d, point) == Append(d, point)

\* the fields csv.writer writes for a data point
PointFields(point) == [i \in 1..Len(point) |-> FloatText(point[i])]

\* lines 6-26: PhysicsLogger(filename); name = "" stands for filename=None
Construct(name) ==
    /\ filename = IF name = "" THEN GeneratedName ELSE name
    /\ data = <<>>
    /\ headers = HEADERS
    /\ fs = [f \in FileNames |->
               IF f = filename THEN FileOf(Truncated(<<>>, HEADERS))
               ELSE IF f = "empty.csv" THEN FileOf(<<>>)
               ELSE NoFile]
    /\ output = Out("__init__", filename, "", 0, <<>>)
    /\ calls = <<>>
    /\ dropped = 0

\* lines 28-45: log_data(time, x_pos, y_pos, vel_x, vel_y)
log_data(point) ==
    /\ Len(data) < MaxRows
    /\ data' = DataAppend(data, point)
    /\ fs' = [fs EXCEPT ![filename] =
                FileOf(Appended(fs[filename].lines, PointFields(point)))]
    /\ output' = Out("log_data", "", "", 0, <<>>)
    /\ calls' = Append(calls, point)
    /\ UNCHANGED <<filename, headers, dropped>>

\* lines 47-49: get_data_count()
DataCount(d) == Len(d)

get_data_count ==
    /\ output' = Out("get_data_count", "", "", DataCount(data), <<>>)
    /\ UNCHANGED <<filename, data, headers, fs, calls, dropped>>

\* lines 51-58: what save_final prints: the count, and the time range when
\* there is data (faulty variant: data[0] is read for both ends)
TimeRange_FirstTwice(d) ==
    IF Len(d) > 0 THEN <<Fixed3(d[1][1]), Fixed3(d[1][1])>> ELSE <<>>
TimeRange(d) ==
    IF Len(d) > 0 THEN <<Fixed3(d[1][1]), Fixed3(d[Len(d)][1])>> ELSE <<>>

save_final ==
    /\ output' = Out("save_final", filename, "", Len(data), TimeRange(data))
    /\ UNCHANGED <<filename, data, headers, fs, calls, dropped>>

\* lines 60-65: clear_data()
clear_data ==
    /\ data' = <<>>
    /\ fs' = [fs EXCEPT ![filename] = FileOf(Truncated(fs[filename].lines, headers))]
    /\ output' = Out("clear_data", "", "", 0, <<>>)
    /\ calls' = <<>>
    /\ dropped' = Len(data)
    /\ UNCHANGED <<filename, headers>>

---------------------------------------------------------------------------
(* graph.py *)
NoFrame == [ok |-> FALSE, columns |-> <<>>, rows |-> <<>>]

\* lines 36-47: load_data(csv_filename).  A file that is not there raises
\* FileNotFoundError, a file with no line at all makes read_csv raise
\* EmptyDataError; both are caught and None is returned.  Otherwise the first
\* line names the columns and every later line is a row of numbers.
load_data(name) ==
    IF ~fs[name].exists \/ Len(fs[name].lines) = 0 THEN NoFrame
    ELSE LET lines == fs[name].lines
         IN [ok |-> TRUE,
             columns |-> Split(lines[1]),
             rows |-> [i \in 1..(Len(lines) - 1) |->
                         LET fields == Split(lines[i + 1])
                         IN [j \in 1..Len(fields) |-> ParseFloat(fields[j])]]]

\* df[column].values
Column(df, column) ==
    LET k == CHOOSE j \in 1..Len(df.columns) : df.columns[j] = column
    IN [i \in 1..Len(df.rows) |-> df.rows[i][k]]

HasColumns(df) == \A h \in {HEADERS[i] : i \in 1..Len(HEADERS)} :
    \E j \in 1..Len(df.columns) : df.columns[j] = h

SeqMax(q) == CHOOSE m \in {q[i] : i \in 1..Len(q)} : \A i \in 1..Len(q) : q[i] <= m
SeqMin(q) == CHOOSE m \in {q[i] : i \in 1..Len(q)} : \A i \in 1..Len(q) : m <= q[i]

\* lines 28-30: calculate_kinetic_energy with mass 1.0, in units of
\* 0.5 * 10^-6 J (velocities are in thousandths)
calculate_kinetic_energy(vxx, vyy) == vxx * vxx + vyy * vyy

\* lines 72-142: generate_physics_graphs(csv_filename), as far as its outcome and
\* the summary of lines 145-161 go (duration, data points, maximum height,
\* range, extreme kinetic energies); the displacement series and the plots
\* are not modelled.
GraphsOutcome(name) ==
    LET df == load_data(name)
    IN IF ~df.ok THEN Out("generate_physics_graphs", name, "no_data", 0, <<>>)
       ELSE IF ~HasColumns(df)
       THEN Out("generate_physics_graphs", name, "KeyError", 0, <<>>)
       ELSE IF Len(df.rows) = 0
       THEN \* line 86: x_pos[0] of an empty array
            Out("generate_physics_graphs", name, "IndexError", 0, <<>>)
       ELSE LET time == Column(df, "Time")
                x_pos == Column(df, "X_Position")
                y_pos == Column(df, "Y_Position")
                vel_x == Column(df, "Velocity_X")
                vel_y == Column(df, "Velocity_Y")
                ke == [i \in 1..Len(vel_x) |->
                         calculate_kinetic_energy(vel_x[i], vel_y[i])]
            IN Out("generate_physics_graphs", name, "summary", Len(time),
                   <<Fixed3(time[Len(time)]), Fixed3(SeqMax(y_pos)),
                     Fixed3(SeqMax(x_pos) - SeqMin(x_pos)),
                     SeqMax(ke), SeqMin(ke)>>)

generate_physics_graphs(name) ==
    /\ output' = GraphsOutcome(name)
    /\ UNCHANGED <<filename, data, headers, fs, calls, dropped>>

---------------------------------------------------------------------------
(* The two programs *)

\* Renderer.py creates no logger
NoLogger ==
    /\ filename = ""
    /\ data = <<>>
    /\ headers = HEADERS
    /\ fs = [f \in FileNames |-> NoFile]
    /\ output = Out("", "", "", 0, <<>>)
    /\ calls = <<>>
    /\ dropped = 0

Init == SimInit /\ NoLogger

Next == GameLoop

Spec == Init /\ [][Next]_vars

\* the loop runs a frame after a frame until a QUIT event ends it
LiveSpec == Spec /\ WF_vars(GameLoop)

\* a logger and the analysis, used without the renderer's loop
NoLoop ==
    /\ InitialHeight = DefaultInitialHeight
    /\ Theta = DefaultTheta
    /\ Velocity = DefaultVelocity
    /\ x = 0
    /\ y = InitialHeight
    /\ vx = initialVelocityX(Theta, Velocity)
    /\ vy = initialVelocityY(Theta, Velocity)
    /\ ball_bottom_x = 0
    /\ ball_bottom_y = GROUND_Y
    /\ running = FALSE
    /\ delta_time = 0
    /\ ball_center = <<0, 0>>
    /\ branch = "start"
    /\ descended = FALSE

LoggerInit == NoLoop /\ \E name \in {"", "run.csv"} : Construct(name)

LogData == \E point \in Samples : log_data(point) /\ UNCHANGED simVars
GetDataCount == get_data_count /\ UNCHANGED simVars
SaveFinal == save_final /\ UNCHANGED simVars
ClearData == clear_data /\ UNCHANGED simVars
GenerateGraphs == \E name \in FileNames : generate_physics_graphs(name) /\ UNCHANGED simVars

LoggerNext == LogData \/ GetDataCount \/ SaveFinal \/ ClearData \/ GenerateGraphs

LoggerSpec == LoggerInit /\ [][LoggerNext]_vars

---------------------------------------------------------------------------
(* Properties of the frame loop (Spec, LiveSpec) *)

\* the ball lies on the ground at rest: y = 0, vx = 0, vy = 0
Grounded == ball_bottom_y = GROUND_Y /\ vx = 0 /\ vy = 0

\* the guard of line 65 in the state a frame starts from
Airborne == ball_bottom_y < GROUND_Y \/ vx # 0 \/ vy # 0

\* the vertical velocity and pixel position that lines 67 and 71 compute in
\* the frame that leads to the next state, before the ground check
RawVy == vy + Gravity * delta_time'
RawY == ball_bottom_y - RawVy * delta_time' * PIXELS_PER_METER

\* the launch of config.py as shipped, and the state it starts in
DefaultLaunch ==
    /\ InitialHeight = DefaultInitialHeight
    /\ Theta = DefaultTheta
    /\ Velocity = DefaultVelocity
AtLaunch ==
    /\ ball_bottom_x = 0
    /\ ball_bottom_y = GROUND_Y - InitialHeight * PIXELS_PER_METER * PosScale
    /\ vx = initialVelocityX(Theta, Velocity)
    /\ vy = initialVelocityY(Theta, Velocity)

\* C1: ground resolution.  Every frame that starts airborne ends with the
\* ball on or above the ground (ball_bottom_y <= GROUND_Y, i.e. y >= 0); when
\* the integration of that frame produces ball_bottom_y >= GROUND_Y (y <= 0)
\* the frame ends with ball_bottom_y = GROUND_Y, vx = 0 and vy = 0; and no
\* frame ends with the ball at ground level and a velocity that is not zero.
C1_GroundResolution ==
    [][Airborne =>
         /\ (RawY >= GROUND_Y =>
               ball_bottom_y' = GROUND_Y /\ vx' = 0 /\ vy' = 0)
         /\ ball_bottom_y' <= GROUND_Y
         /\ (ball_bottom_y' = GROUND_Y => vx' = 0 /\ vy' = 0)]_vars

\* a flight that has moved sideways and was then stopped on the ground
C1_Witness ==
    /\ branch = "update"
    /\ Grounded
    /\ ball_bottom_x # 0
    /\ descended
    /\ delta_time > 0

\* C2: Grounded is absorbing.  From a state with y = 0, vx = 0, vy = 0 every
\* frame, whatever its elapsed time, skips the physics update and leaves
\* x, y, vx, vy and the pixel position as they are.
C2_GroundedAbsorbing ==
    [][Grounded =>
         /\ branch' = "skip"
         /\ UNCHANGED <<x, y, vx, vy, ball_bottom_x, ball_bottom_y>>
         /\ Grounded']_vars

\* the ball has flown, landed, and a later frame has run on the grounded ball
C2_Witness ==
    /\ Grounded
    /\ ball_bottom_x > 0
    /\ branch = "skip"
    /\ delta_time > 0

\* C3: zero initial state.  With initial_height = 0 and a launch velocity of
\* (0, 0) no frame ever takes the physics update, and x, y, vx, vy and the
\* pixel position keep their initial values.
C3_ZeroInitialState ==
    (/\ InitialHeight = 0
     /\ initialVelocityX(Theta, Velocity) = 0
     /\ initialVelocityY(Theta, Velocity) = 0)
    => /\ branch # "update"
       /\ x = 0 /\ y = 0 /\ vx = 0 /\ vy = 0
       /\ ball_bottom_x = 0 /\ ball_bottom_y = GROUND_Y

\* frames have run on a ball configured at rest on the ground
C3_Witness ==
    /\ InitialHeight = 0
    /\ Velocity = 0
    /\ vx = 0 /\ vy = 0
    /\ branch = "skip"
    /\ delta_time > 0

\* C4: semi-implicit Euler.  A frame that starts airborne and does not reach
\* the ground adds Gravity*dt to vy, leaves vx alone, moves x by the old
\* vx*dt and moves y by the NEW vy*dt (positions in pixels: metres times
\* PIXELS_PER_METER, the vertical axis pointing down).
C4_SemiImplicitEuler ==
    [][(Airborne /\ RawY < GROUND_Y) =>
         /\ vy' = vy + Gravity * delta_time'
         /\ vx' = vx
         /\ ball_bottom_x' = ball_bottom_x + vx * delta_time' * PIXELS_PER_METER
         /\ ball_bottom_y' = ball_bottom_y - vy' * delta_time' * PIXELS_PER_METER]_vars

\* an integration step has been taken and the ball is still in the air, moving
C4_Witness ==
    /\ branch = "update"
    /\ ball_bottom_y < GROUND_Y
    /\ vx # 0
    /\ vy # 0

\* C9: motion halts.  While frames keep coming (the window is not closed) the
\* ball reaches y = 0 with vx = 0 and vy = 0 after finitely many frames, from
\* every launch with initial_height >= 0.
C9_MotionHalts == <>(Grounded \/ ~running)

\* an upward launch that has come down and stopped
C9_Witness ==
    /\ initialVelocityY(Theta, Velocity) > 0
    /\ running
    /\ Grounded
    /\ ball_bottom_x > 0
    /\ descended

RECURSIVE FlightYs(_, _, _)
\* the pixel heights after each of n frames of dt from physics state s
FlightYs(s, dt, n) ==
    IF n = 0 THEN <<>>
    ELSE LET t == PhysicsUpdate(s, dt)
         IN <<t.by>> \o FlightYs(t, dt, n - 1)

\* ys, starting from pixel height y0 on the ground, first rises for at least
\* one frame (the pixel value falls), then never rises again, and ends on the
\* ground
RisesThenFalls(y0, ys) ==
    LET all == <<y0>> \o ys
    IN /\ y0 = GROUND_Y
       /\ all[Len(all)] = GROUND_Y
       /\ \E k \in 2..(Len(all) - 1) :
             /\ \A i \in 1..(k - 1) : all[i + 1] < all[i]
             /\ \A i \in k..(Len(all) - 1) : all[i + 1] >= all[i]
             /\ all[k + 1] > all[k]

\* C10: rise then fall.  A frame that leaves the ball airborne strictly
\* lowers vy; once a frame has lowered the ball no later frame raises it; when
\* the motion has stopped y is exactly 0; and the first 0.1 s frame of the
\* shipped launch (45 degrees, speed 9, height 0) raises the ball, and twenty
\* such frames take it up, then down, and back to y = 0.
C10_RiseThenFall ==
    [][/\ (Airborne /\ RawY < GROUND_Y) => vy' < vy
       /\ descended => ball_bottom_y' >= ball_bottom_y
       /\ (ball_bottom_y' >= GROUND_Y /\ vx' = 0 /\ vy' = 0)
             => ball_bottom_y' = GROUND_Y
       /\ (DefaultLaunch /\ AtLaunch /\ delta_time' = TimeScale \div 10)
             => ball_bottom_y' < ball_bottom_y
       /\ (DefaultLaunch /\ AtLaunch)
             => RisesThenFalls(ball_bottom_y,
                               FlightYs(Physics, TimeScale \div 10, 20))]_vars

\* the shipped launch, above the ground after having risen, on its way down
C10_Witness ==
    /\ DefaultLaunch
    /\ descended
    /\ ball_bottom_y < GROUND_Y
    /\ vy < 0

---------------------------------------------------------------------------
(* Properties of the logger and the analysis (LoggerSpec) *)

HeaderLine == "Time,X_Position,Y_Position,Velocity_X,Velocity_Y"

\* the data rows of the logger's file, as read_csv loads them
Reloaded == load_data(filename).rows

TimesOf(d) == [i \in 1..Len(d) |-> d[i][1]]
NonDecreasing(q) == \A i \in 1..(Len(q) - 1) : q[i] <= q[i + 1]

\* C5: append-only round trip.  After construction or the last clear_data
\* the buffer holds exactly the logged points in call order, the file holds
\* the header line followed by one line per logged point in call order, and
\* loading the file gives back the logged points, also when times repeat or
\* decrease.
C5_AppendOnlyRoundTrip ==
    /\ data = calls
    /\ fs[filename].exists
    /\ Len(fs[filename].lines) = Len(calls) + 1
    /\ fs[filename].lines[1] = HeaderLine
    /\ \A i \in 1..Len(calls) :
          Split(fs[filename].lines[i + 1]) = PointFields(calls[i])
    /\ load_data(filename).ok
    /\ load_data(filename).columns = HEADERS
    /\ Reloaded = calls

\* three points logged with a repeated and then a smaller time; the last
\* line of the file is the text of the last point
C5_Witness ==
    /\ Len(calls) = 3
    /\ calls[1][1] = calls[2][1]
    /\ calls[3][1] < calls[2][1]
    /\ calls[2] = Sample(1250)
    /\ fs[filename].lines[3] = "1.25,7.955,0.5,6.364,-5.898"
    /\ Reloaded = calls

\* C6: analysis of an input without data rows (no file, an empty file, a file
\* holding only the header line) reports "no data" and raises nothing.
C6_EmptyInputNoData ==
    (/\ output.op = "generate_physics_graphs"
     /\ (~fs[output.arg].exists \/ Len(fs[output.arg].lines) <= 1))
    => output.result = "no_data"

\* C7 as stated: save_final reports the count of entries and the minimum and
\* maximum time over all entries, in any order of the times.
C7_ReportsMinMax ==
    output.op = "save_final" =>
        /\ output.count = DataCount(data)
        /\ (Len(data) = 0 => output.span = <<>>)
        /\ (Len(data) > 0 =>
              output.span = <<Fixed3(SeqMin(TimesOf(data))),
                              Fixed3(SeqMax(TimesOf(data)))>>)

\* C7 amended: save_final reports the count of entries recorded since
\* construction or the last clear_data (get_data_count) and, when there are
\* entries, the times of the first and of the last entry, to three decimals;
\* these are the minimum and the maximum when the times were logged in
\* non-decreasing order.  With no entries it reports no time span.
C7_ReportsFirstLast ==
    output.op = "save_final" =>
        /\ output.count = DataCount(data)
        /\ output.count = Len(calls)
        /\ (Len(calls) = 0 => output.span = <<>>)
        /\ (Len(calls) > 0 =>
              output.span = <<Fixed3(calls[1][1]), Fixed3(calls[Len(calls)][1])>>)
        /\ (Len(calls) > 0 /\ NonDecreasing(TimesOf(calls)) =>
              output.span = <<Fixed3(SeqMin(TimesOf(calls))),
                              Fixed3(SeqMax(TimesOf(calls)))>>)

\* save_final after three entries whose first time is the largest and whose
\* last time is neither the minimum nor the maximum
C7_Witness ==
    /\ output.op = "save_final"
    /\ output.count = 3
    /\ TimesOf(data) = <<1250, 0, 500>>
    /\ output.span = <<"1.250", "0.500">>

\* C8: reset.  Right after clear_data the buffer is empty, get_data_count is
\* 0 and the file holds the header line alone; a point logged next is the
\* only row of the buffer and of the file; and no call changes the file name
\* or the header schema.
C8_Reset ==
    /\ [](output.op = "clear_data" =>
            /\ data = <<>>
            /\ DataCount(data) = 0
            /\ fs[filename].lines = <<HeaderLine>>)
    /\ [][(output.op = "clear_data" /\ Len(calls') = 1) =>
            /\ data' = <<calls'[1]>>
            /\ fs'[filename].lines = <<HeaderLine, WriteRow(PointFields(calls'[1]))>>]_vars
    /\ [][filename' = filename /\ headers' = headers]_vars

\* clear_data has thrown away a full buffer
C8_Witness ==
    /\ output.op = "clear_data"
    /\ dropped = MaxRows
    /\ data = <<>>

====
